---- MODULE Spec2Model ----
(***************************************************************************)
(* Model of scripts/check_removed_pages_redirects.py: the page extractor,  *)
(* the redirect matcher and main().                                        *)
(*                                                                         *)
(* A Python str is a sequence of one-character strings.  A JSON value that *)
(* sits in a list is a record [t, v]: t = "str" with v the characters,     *)
(* t = "obj" with v a function from the keys present to their values, and  *)
(* t = "other" for any value that is neither a str nor a dict.  The value  *)
(* of a container key (pages, tabs, groups, dropdowns, products,           *)
(* redirects) is a sequence of such records.                               *)
(***************************************************************************)
EXTENDS Integers, Sequences, FiniteSets, TLC

VARIABLES
    \* main()
    sys_argv, fs_exists, pc, exit_code, stderr, stdout, trace,
    base_docs, head_docs, base_pages, head_pages, head_redirects,
    removed_pages, doc_redirects, todo, pages_without_redirect,
    \* direct calls of the redirect matcher
    n_pc, n_path, n_once, n_twice, n_rules, n_found,
    \* direct calls of the page extractor
    e_pc, e_docs, e_pages

main_vars == <<sys_argv, fs_exists, pc, exit_code, stderr, stdout, trace,
               base_docs, head_docs, base_pages, head_pages, head_redirects,
               removed_pages, doc_redirects, todo, pages_without_redirect>>
norm_vars == <<n_pc, n_path, n_once, n_twice, n_rules, n_found>>
extract_vars == <<e_pc, e_docs, e_pages>>
vars == <<main_vars, norm_vars, extract_vars>>

(***************************************************************************)
(* Bounds of the inputs.                                                   *)
(***************************************************************************)
MaxParts == 3       \* fragments in an identifier given to the matcher
MaxRules == 2       \* rules in a redirect list given to the matcher
MaxNodes == 5       \* list elements in a navigation document
MaxPages == 2       \* identifiers in the pages list of a document of main()
MaxRedirects == 2   \* entries in the redirects array of a document of main()
MaxArgs == 3        \* command-line arguments after the script name

(***************************************************************************)
(* Strings.                                                                *)
(***************************************************************************)
Str(s) == [t |-> "str", v |-> s]
Obj(f) == [t |-> "obj", v |-> f]
Other == [t |-> "other", v |-> 0]
EmptyDict == [k \in {} |-> 0]

MdxSuffix == <<".", "m", "d", "x">>
Index == <<"i", "n", "d", "e", "x">>

\* ord() of the characters the model uses.
Ord(c) ==
    CASE c = "." -> 46 [] c = "/" -> 47 [] c = "X" -> 88
      [] c = "a" -> 97 [] c = "b" -> 98 [] c = "c" -> 99 [] c = "d" -> 100
      [] c = "e" -> 101 [] c = "g" -> 103 [] c = "h" -> 104 [] c = "i" -> 105
      [] c = "m" -> 109 [] c = "n" -> 110 [] c = "x" -> 120

\* str.__lt__: lexicographic by code point, a proper prefix first.
RECURSIVE StrLess(_, _)
StrLess(a, b) ==
    IF b = <<>> THEN FALSE
    ELSE IF a = <<>> THEN TRUE
    ELSE IF Head(a) # Head(b) THEN Ord(Head(a)) < Ord(Head(b))
    ELSE StrLess(Tail(a), Tail(b))

\* A strip of one leading occurrence only.
lstrip_first_only(s, c) ==
    IF s # <<>> /\ Head(s) = c THEN Tail(s) ELSE s

\* str.lstrip(chars) with a single character: every leading occurrence goes.
RECURSIVE lstrip(_, _)
lstrip(s, c) ==
    IF s # <<>> /\ Head(s) = c THEN lstrip(Tail(s), c) ELSE s

\* A removal of every trailing occurrence.
RECURSIVE removesuffix_repeated(_, _)
removesuffix_repeated(s, suffix) ==
    IF Len(s) >= Len(suffix)
       /\ SubSeq(s, Len(s) - Len(suffix) + 1, Len(s)) = suffix
    THEN removesuffix_repeated(SubSeq(s, 1, Len(s) - Len(suffix)), suffix)
    ELSE s

\* str.removesuffix(suffix): one occurrence, only at the very end.
removesuffix(s, suffix) ==
    IF Len(s) >= Len(suffix)
       /\ SubSeq(s, Len(s) - Len(suffix) + 1, Len(s)) = suffix
    THEN SubSeq(s, 1, Len(s) - Len(suffix))
    ELSE s

\* dict.get(key, default)
dict_get(d, key, default) == IF key \in DOMAIN d THEN d[key] ELSE default

(***************************************************************************)
(* The redirect matcher.                                                   *)
(***************************************************************************)
normalize_page_for_comparison(path) ==
    removesuffix(lstrip(path, "/"), MdxSuffix)

\* The same without the "index" rule.
matcher_normalized_keep_empty(path) == normalize_page_for_comparison(path)

\* Lines 87-89 and 93-95: normalize, then the empty string stands for "index".
matcher_normalized(path) ==
    LET normalized == normalize_page_for_comparison(path)
    IN  IF normalized = <<>> THEN Index ELSE normalized

\* The for loop of lines 91-100 over the remaining redirects.
RECURSIVE redirect_loop(_, _)
redirect_loop(page_normalized, redirects) ==
    IF redirects = <<>> THEN FALSE
    ELSE LET source == dict_get(Head(redirects).v, "source", <<>>)
             source_normalized == matcher_normalized(source)
         IN  IF source_normalized = page_normalized THEN TRUE
             ELSE redirect_loop(page_normalized, Tail(redirects))

has_redirect_for_page(page_path, redirects) ==
    redirect_loop(matcher_normalized(page_path), redirects)

(***************************************************************************)
(* The page extractor.                                                     *)
(***************************************************************************)
\* Lines 19-27: one element of a pages array.
RECURSIVE extract_pages_from_pages_array(_)
page_item(item) ==
    IF item.t = "str" THEN {item.v}
    ELSE IF item.t = "obj" /\ "pages" \in DOMAIN item.v
         THEN extract_pages_from_pages_array(item.v["pages"])
         ELSE {}

extract_pages_from_pages_array(items) ==
    UNION {page_item(items[i]) : i \in DOMAIN items}

\* Lines 51-54 and 69-70: a group contributes its pages.
group_pages(group) ==
    IF group.t = "obj" /\ "pages" \in DOMAIN group.v
    THEN extract_pages_from_pages_array(group.v["pages"])
    ELSE {}

\* A tab that contributes its pages and its groups' pages alike.
product_tab_pages_and_groups(tab) ==
    IF tab.t # "obj" THEN {}
    ELSE (IF "pages" \in DOMAIN tab.v
          THEN extract_pages_from_pages_array(tab.v["pages"]) ELSE {})
         \cup (IF "groups" \in DOMAIN tab.v
               THEN UNION {group_pages(tab.v["groups"][i]) : i \in DOMAIN tab.v["groups"]}
               ELSE {})

\* Lines 45-54: a tab of a product: its pages, else its groups' pages.
product_tab_pages(tab) ==
    IF tab.t # "obj" THEN {}
    ELSE IF "pages" \in DOMAIN tab.v
         THEN extract_pages_from_pages_array(tab.v["pages"])
    ELSE IF "groups" \in DOMAIN tab.v
         THEN UNION {group_pages(tab.v["groups"][i]) : i \in DOMAIN tab.v["groups"]}
    ELSE {}

\* Lines 61-64: a tab of a dropdown: its pages only.
dropdown_tab_pages(tab) ==
    IF tab.t = "obj" /\ "pages" \in DOMAIN tab.v
    THEN extract_pages_from_pages_array(tab.v["pages"])
    ELSE {}

\* Lines 59-64.
dropdown_pages(dropdown) ==
    IF dropdown.t = "obj" /\ "tabs" \in DOMAIN dropdown.v
    THEN UNION {dropdown_tab_pages(dropdown.v["tabs"][i]) :
                    i \in DOMAIN dropdown.v["tabs"]}
    ELSE {}

\* Lines 37-70: the body of the loop over the products.
product_pages(product) ==
    IF product.t # "obj" THEN {}
    ELSE LET p == product.v
             direct == IF "pages" \in DOMAIN p
                       THEN extract_pages_from_pages_array(p["pages"]) ELSE {}
             tabs == IF "tabs" \in DOMAIN p
                     THEN UNION {product_tab_pages(p["tabs"][i]) : i \in DOMAIN p["tabs"]}
                     ELSE {}
             dropdowns == IF "dropdowns" \in DOMAIN p
                          THEN UNION {dropdown_pages(p["dropdowns"][i]) :
                                          i \in DOMAIN p["dropdowns"]}
                          ELSE {}
             groups == IF "groups" \in DOMAIN p
                       THEN UNION {group_pages(p["groups"][i]) : i \in DOMAIN p["groups"]}
                       ELSE {}
         IN  direct \cup tabs \cup dropdowns \cup groups

extract_all_pages(docs) ==
    LET navigation == dict_get(docs, "navigation", EmptyDict)
        products == dict_get(navigation, "products", <<>>)
    IN  UNION {product_pages(products[i]) : i \in DOMAIN products}

(***************************************************************************)
(* Navigation documents with at most MaxNodes list elements.  XLists(n) is *)
(* the set of lists of X holding exactly n elements in all, nested ones    *)
(* included.  A key of an object is absent (<<>>) or present with a list   *)
(* (<<list>>); a key is present with the empty list only where the code    *)
(* tells the two apart, at the pages of a tab.                             *)
(***************************************************************************)
PageNames == {<<"a">>, <<"b">>}
GroupName == <<"g">>

Field(key, opt) == IF opt = <<>> THEN EmptyDict ELSE (key :> opt[1])

Opt(lists) == {<<l>> : l \in lists}
Absent == {<<>>}

\* The union of the sets of a sequence.  Counting a set first makes TLC sort
\* it, so that the union searches it by bisection.
Counted(S) == IF Cardinality(S) >= 0 THEN S ELSE {}

RECURSIVE Cup(_)
Cup(sets) ==
    IF Len(sets) = 0 THEN {} ELSE Counted(Head(sets)) \cup Cup(Tail(sets))

\* elems[k] holds the elements of exactly k nodes; table[k + 1] holds the
\* lists of exactly k nodes, for k up to n.
RECURSIVE ListTable(_, _)
ListTable(elems, n) ==
    IF n = 0 THEN << {<<>>} >>
    ELSE LET table == ListTable(elems, n - 1)
         IN  Append(table,
                    Cup([k \in 1..n |->
                            {<<e>> \o rest : e \in elems[k], rest \in table[n - k + 1]}]))

\* An element of a pages list: a leaf, or a wrapper around a shorter list.
RECURSIVE PageTable(_)
PageTable(n) ==
    IF n = 0 THEN << {<<>>} >>
    ELSE LET table == PageTable(n - 1)
             items(k) ==
                 IF k = 1
                 THEN {Str(s) : s \in PageNames}
                      \cup {Other, Obj("group" :> GroupName)}
                 ELSE {Obj(("group" :> GroupName) @@ ("pages" :> l)) : l \in table[k]}
         IN  Append(table,
                    Cup([k \in 1..n |->
                            {<<e>> \o rest : e \in items(k), rest \in table[n - k + 1]}]))

\* The ways to give a key a list of exactly n elements taken from a table.
OptOf(table, n) == IF n = 0 THEN Absent ELSE Opt(table[n + 1])

Groups(pageLists, n) ==
    (IF n = 1 THEN {Other} ELSE {})
    \cup {Obj(Field("pages", o)) : o \in OptOf(pageLists, n - 1)}

Tabs(pageLists, groupLists, n) ==
    (IF n = 1 THEN {Other} ELSE {})
    \cup Cup([i \in 1..n |->
                LET k == i - 1
                IN  {Obj(Field("pages", o) @@ Field("groups", g)) :
                        o \in OptOf(pageLists, k)
                              \cup (IF k = 0 THEN Opt({<<>>}) ELSE {}),
                        g \in OptOf(groupLists, n - 1 - k)}])

Dropdowns(tabLists, n) ==
    (IF n = 1 THEN {Other} ELSE {})
    \cup {Obj(Field("tabs", o)) : o \in OptOf(tabLists, n - 1)}

\* The n - 1 nodes under a product are split over its four keys.
Products(pageLists, tabLists, dropdownLists, groupLists, n) ==
    (IF n = 1 THEN {Other} ELSE {})
    \cup Cup([ia \in 1..n |->
            Cup([ib \in 1..(n - ia + 1) |->
                Cup([ic \in 1..(n - ia - ib + 2) |->
                    LET a == ia - 1
                        b == ib - 1
                        c == ic - 1
                    IN  {Obj(Field("pages", o) @@ Field("tabs", t)
                             @@ Field("dropdowns", d) @@ Field("groups", g)) :
                            o \in OptOf(pageLists, a),
                            t \in OptOf(tabLists, b),
                            d \in OptOf(dropdownLists, c),
                            g \in OptOf(groupLists, n - 1 - a - b - c)}])])])

\* A document: no navigation, a navigation without products, or products
\* holding at most n elements.
NavDocs(n) ==
    LET pageLists == PageTable(n)
        groupLists == ListTable([k \in 1..n |-> Groups(pageLists, k)], n)
        tabLists == ListTable([k \in 1..n |-> Tabs(pageLists, groupLists, k)], n)
        dropdownLists == ListTable([k \in 1..n |-> Dropdowns(tabLists, k)], n)
        productLists ==
            ListTable([k \in 1..n |-> Products(pageLists, tabLists, dropdownLists,
                                               groupLists, k)], n)
    IN  {EmptyDict, "navigation" :> EmptyDict}
        \cup Cup([i \in 1..(n + 1) |->
                    {"navigation" :> ("products" :> l) : l \in productLists[i]}])

(***************************************************************************)
(* Direct calls of extract_all_pages.                                      *)
(***************************************************************************)
MainIdle ==
    /\ sys_argv = <<>> /\ fs_exists = {} /\ pc = "idle" /\ exit_code = <<>>
    /\ stderr = <<>> /\ stdout = <<>> /\ trace = <<>>
    /\ base_docs = EmptyDict /\ head_docs = EmptyDict
    /\ base_pages = {} /\ head_pages = {} /\ head_redirects = <<>>
    /\ removed_pages = {} /\ doc_redirects = <<>> /\ todo = <<>>
    /\ pages_without_redirect = <<>>

NormIdle ==
    /\ n_pc = "idle" /\ n_path = <<>> /\ n_once = <<>> /\ n_twice = <<>>
    /\ n_rules = <<>> /\ n_found = FALSE

ExtractIdle == e_pc = "idle" /\ e_docs = EmptyDict /\ e_pages = {}

InitExtract ==
    /\ MainIdle /\ NormIdle
    /\ e_pc = "call"
    /\ e_docs \in NavDocs(MaxNodes)
    /\ e_pages = {}

CallExtractAllPages ==
    /\ e_pc = "call"
    /\ e_pages' = extract_all_pages(e_docs)
    /\ e_pc' = "returned"
    /\ UNCHANGED <<e_docs, main_vars, norm_vars>>

NextExtract == CallExtractAllPages

SpecExtract == InitExtract /\ [][NextExtract]_vars

\* The traversal as the specification words it: the pages lists that
\* contribute, then the strings reached inside each of them.
ObjectsIn(list) == {list[i].v : i \in {j \in DOMAIN list : list[j].t = "obj"}}
ListAt(d, key) == IF key \in DOMAIN d THEN d[key] ELSE <<>>
WithPages(objects) == {o \in objects : "pages" \in DOMAIN o}

RECURSIVE StringsReached(_)
StringsReached(list) ==
    {list[i].v : i \in {j \in DOMAIN list : list[j].t = "str"}}
    \cup UNION {StringsReached(o["pages"]) : o \in WithPages(ObjectsIn(list))}

ContributingLists(docs) ==
    LET products ==
            IF "navigation" \in DOMAIN docs
            THEN ObjectsIn(ListAt(docs["navigation"], "products")) ELSE {}
        ofProduct == {p["pages"] : p \in WithPages(products)}
        tabs == UNION {ObjectsIn(ListAt(p, "tabs")) : p \in products}
        ofTab == {t["pages"] : t \in WithPages(tabs)}
        tabGroups == UNION {ObjectsIn(ListAt(t, "groups")) : t \in tabs \ WithPages(tabs)}
        ofTabGroup == {g["pages"] : g \in WithPages(tabGroups)}
        dropdowns == UNION {ObjectsIn(ListAt(p, "dropdowns")) : p \in products}
        dropdownTabs == UNION {ObjectsIn(ListAt(d, "tabs")) : d \in dropdowns}
        ofDropdownTab == {t["pages"] : t \in WithPages(dropdownTabs)}
        groups == UNION {ObjectsIn(ListAt(p, "groups")) : p \in products}
        ofGroup == {g["pages"] : g \in WithPages(groups)}
    IN  ofProduct \cup ofTab \cup ofTabGroup \cup ofDropdownTab \cup ofGroup

ExpectedPages(docs) == UNION {StringsReached(l) : l \in ContributingLists(docs)}

\* C5: extract_all_pages returns exactly the raw strings reached through the
\* pages of each product, of each product tab (else of the tab's groups), of
\* each dropdown tab and of each product group, wrappers being transparent and
\* everything else skipped.
C5_ExtractMatchesTraversal ==
    e_pc = "returned" => e_pages = ExpectedPages(e_docs)

\* A tab carrying both keys: only the string under its pages is returned.
C5_Witness ==
    /\ e_pc = "returned"
    /\ e_docs = "navigation" :> ("products" :> <<Obj("tabs" :> <<
           Obj(("pages" :> <<Str(<<"a">>)>>)
               @@ ("groups" :> <<Obj("pages" :> <<Str(<<"b">>)>>)>>))>>)>>)
    /\ e_pages = {<<"a">>}

(***************************************************************************)
(* Direct calls of the redirect matcher.                                   *)
(***************************************************************************)
Fragments == {<<"/">>, <<"x">>, MdxSuffix, Index}

\* The identifiers made of at most n fragments.
RECURSIVE Idents(_)
Idents(n) ==
    IF n = 0 THEN {<<>>}
    ELSE LET shorter == Idents(n - 1)
         IN  shorter \cup {f \o s : f \in Fragments, s \in shorter}

Rule(source) == Obj(("source" :> source) @@ ("destination" :> <<"/", "x">>))

MatcherSources ==
    {<<>>, <<"/">>, <<"/">> \o Index \o MdxSuffix, Index,
     <<"x">>, <<"/", "x">>, <<"/", "/", "x">>, <<"x">> \o MdxSuffix, <<"X">>}

\* The lists of at most n entries taken from a set.
RECURSIVE ListsUpTo(_, _)
ListsUpTo(entries, n) ==
    IF n = 0 THEN {<<>>}
    ELSE LET shorter == ListsUpTo(entries, n - 1)
         IN  shorter \cup {<<e>> \o l : e \in entries, l \in shorter}

InitNorm ==
    /\ MainIdle /\ ExtractIdle
    /\ n_pc = "start"
    /\ n_path \in Idents(MaxParts)
    /\ n_once = <<>> /\ n_twice = <<>> /\ n_rules = <<>> /\ n_found = FALSE

\* Lines 87-89 on the identifier.
Normalize ==
    /\ n_pc = "start"
    /\ n_once' = matcher_normalized(n_path)
    /\ n_pc' = "once"
    /\ UNCHANGED <<n_path, n_twice, n_rules, n_found, main_vars, extract_vars>>

\* The same lines on their own result.
NormalizeAgain ==
    /\ n_pc = "once"
    /\ n_twice' = matcher_normalized(n_once)
    /\ n_pc' = "twice"
    /\ UNCHANGED <<n_path, n_once, n_rules, n_found, main_vars, extract_vars>>

\* has_redirect_for_page on the identifier and a list of page redirects.
Match ==
    /\ n_pc = "twice"
    /\ \E rules \in ListsUpTo({Rule(src) : src \in MatcherSources}, MaxRules) :
           /\ n_rules' = rules
           /\ n_found' = has_redirect_for_page(n_path, rules)
    /\ n_pc' = "matched"
    /\ UNCHANGED <<n_path, n_once, n_twice, main_vars, extract_vars>>

NextNorm == Normalize \/ NormalizeAgain \/ Match

SpecNorm == InitNorm /\ [][NextNorm]_vars

\* The normalization as the specification words it.
StripOneSlash(s) == IF s # <<>> /\ s[1] = "/" THEN SubSeq(s, 2, Len(s)) ELSE s
LeadingSlashes(s) ==
    CHOOSE k \in 0..Len(s) :
        /\ \A i \in 1..k : s[i] = "/"
        /\ k = Len(s) \/ s[k + 1] # "/"
StripEverySlash(s) == SubSeq(s, LeadingSlashes(s) + 1, Len(s))
EndsWithMdx(s) ==
    /\ Len(s) >= Len(MdxSuffix)
    /\ \A i \in DOMAIN MdxSuffix : s[Len(s) - Len(MdxSuffix) + i] = MdxSuffix[i]
DropMdx(s) == IF EndsWithMdx(s) THEN SubSeq(s, 1, Len(s) - Len(MdxSuffix)) ELSE s
OrIndex(s) == IF s = <<>> THEN Index ELSE s
NormOneSlash(s) == OrIndex(DropMdx(StripOneSlash(s)))
NormEverySlash(s) == OrIndex(DropMdx(StripEverySlash(s)))

\* C3 as claimed: the matcher strips exactly one leading "/", then one
\* trailing ".mdx", maps the empty result to "index", and reports a match
\* exactly when the two normal forms are equal.
C3_OneSlashOnly ==
    n_pc = "matched" =>
        /\ n_once = NormOneSlash(n_path)
        /\ n_found <=> \E i \in DOMAIN n_rules :
               NormOneSlash(n_rules[i].v["source"]) = NormOneSlash(n_path)

\* C3 amended: the matcher strips every leading "/", then one trailing
\* ".mdx", maps the empty result to "index", and reports a match exactly when
\* the two normal forms are equal.
C3_EverySlash ==
    n_pc = "matched" =>
        /\ n_once = NormEverySlash(n_path)
        /\ n_found <=> \E i \in DOMAIN n_rules :
               NormEverySlash(n_rules[i].v["source"]) = NormEverySlash(n_path)

\* Page x is covered by the rule whose source is //x.
C3_Witness ==
    /\ n_pc = "matched"
    /\ n_path = <<"x">>
    /\ n_rules = <<Rule(<<"/", "/", "x">>)>>
    /\ n_found

\* C4 as claimed: normalizing a normalized identifier changes nothing.
C4_Idempotent ==
    n_pc \in {"twice", "matched"} => n_twice = n_once

\* C4 amended: normalizing a normalized identifier changes nothing exactly
\* when the normalized identifier does not itself end in ".mdx".
C4_IdempotentUnlessMdxRemains ==
    n_pc \in {"twice", "matched"} => (n_twice = n_once <=> ~EndsWithMdx(n_once))

\* x.mdx.mdx gives x.mdx, which gives x.
C4_Witness ==
    /\ n_pc = "twice"
    /\ n_path = <<"x">> \o MdxSuffix \o MdxSuffix
    /\ n_once = <<"x">> \o MdxSuffix
    /\ n_twice = <<"x">>

\* C9: "", "/", "/index.mdx" and "index" all normalize to "index", so each
\* of them is covered by a rule whose source is any of them.
RootForms == {<<>>, <<"/">>, <<"/">> \o Index \o MdxSuffix, Index}

C9_RootFormsConverge ==
    /\ n_pc # "start" /\ n_path \in RootForms => n_once = Index
    /\ n_pc = "matched" /\ n_path \in RootForms
         /\ (\E i \in DOMAIN n_rules : n_rules[i].v["source"] \in RootForms)
       => n_found

\* The empty identifier is covered by the rule whose source is /index.mdx.
C9_Witness ==
    /\ n_pc = "matched"
    /\ n_path = <<>>
    /\ n_rules = <<Rule(<<"/">> \o Index \o MdxSuffix)>>
    /\ n_found

(***************************************************************************)
(* main().                                                                 *)
(***************************************************************************)
ScriptName == <<"c">>
PathNames == {<<"b">>, <<"h">>}

Msg(kind, arg) == [kind |-> kind, arg |-> arg]
Out(kind, count) == [kind |-> kind, count |-> count]

arity_at_least(argv) == Len(argv) >= 3

\* Line 104: len(sys.argv) != 3 is a usage error.
arity_ok(argv) == Len(argv) = 3

path_exists_always(path) == TRUE

\* Lines 114 and 118: Path.exists().
path_exists(path) == path \in fs_exists

removed_swapped(base, head) == head \ base

removed_by_normal_form(base, head) ==
    {p \in base : \A h \in head : matcher_normalized(h) # matcher_normalized(p)}

\* Line 131: base_pages - head_pages, on the strings as extracted.
removed(base, head) == base \ head

is_any_dict(r) == r.t = "obj"

\* Line 141: the entries that redirect a page.
is_doc_redirect(r) ==
    r.t = "obj" /\ "source" \in DOMAIN r.v /\ "destination" \in DOMAIN r.v

RECURSIVE sorted_descending(_)
sorted_descending(S) ==
    IF S = {} THEN <<>>
    ELSE LET last == CHOOSE x \in S : \A y \in S \ {x} : StrLess(y, x)
         IN  <<last>> \o sorted_descending(S \ {last})

\* Line 145: sorted() of a set of str.
RECURSIVE sorted(_)
sorted(S) ==
    IF S = {} THEN <<>>
    ELSE LET first == CHOOSE x \in S : \A y \in S \ {x} : StrLess(x, y)
         IN  <<first>> \o sorted(S \ {first})

\* The documents the two files may hold: one product with a flat pages list,
\* and a redirects array or none.
BaseIdents == {<<>>, <<"/", "a">>, <<"a">>, <<"a">> \o MdxSuffix, <<"b">>}
HeadIdents == {<<>>, <<"a">>, <<"b">>}

SourceOnly(source) == Obj(("source" :> source) @@ ("openapi" :> <<"x">>))
DestinationOnly == Obj("destination" :> <<"/", "x">>)

RedirectEntries ==
    {Rule(<<"/", "a">>), Rule(<<"b">> \o MdxSuffix), Rule(<<"/">>),
     SourceOnly(<<"/", "a">>), DestinationOnly, Other}

PageSets(idents) == {S \in SUBSET idents : Cardinality(S) <= MaxPages}

PagesList(S) == LET l == sorted(S) IN [i \in DOMAIN l |-> Str(l[i])]

Doc(pages, redirects) ==
    ("navigation" :> ("products" :> <<Obj("pages" :> PagesList(pages))>>))
    @@ Field("redirects", redirects)

\* The base document redirects every page: main() reads the table of head.
BaseDocs ==
    {Doc(S, << <<Rule(<<"/", "a">>), Rule(<<"b">>), Rule(<<>>)>> >>) :
         S \in PageSets(BaseIdents)}

HeadDocs ==
    {Doc(S, r) : S \in PageSets(HeadIdents),
                 r \in {<<>>} \cup {<<l>> : l \in ListsUpTo(RedirectEntries, MaxRedirects)}}

Init ==
    /\ NormIdle /\ ExtractIdle
    /\ sys_argv \in {<<ScriptName>> \o args : args \in ListsUpTo(PathNames, MaxArgs)}
    /\ fs_exists \in SUBSET PathNames
    /\ pc = "argc"
    /\ exit_code = <<>> /\ stderr = <<>> /\ stdout = <<>> /\ trace = <<>>
    /\ base_docs = EmptyDict /\ head_docs = EmptyDict
    /\ base_pages = {} /\ head_pages = {} /\ head_redirects = <<>>
    /\ removed_pages = {} /\ doc_redirects = <<>> /\ todo = <<>>
    /\ pages_without_redirect = <<>>

\* Lines 104-109.
CheckArgc ==
    /\ pc = "argc"
    /\ trace' = Append(trace, "argc")
    /\ IF arity_ok(sys_argv)
       THEN /\ pc' = "exists_base"
            /\ UNCHANGED <<stderr, exit_code>>
       ELSE /\ stderr' = Append(stderr, Msg("usage", <<>>))
            /\ exit_code' = <<2>>
            /\ pc' = "done"
    /\ UNCHANGED <<sys_argv, fs_exists, stdout, base_docs, head_docs, base_pages,
                   head_pages, head_redirects, removed_pages, doc_redirects, todo,
                   pages_without_redirect, norm_vars, extract_vars>>

\* Lines 111-116.
CheckBaseExists ==
    /\ pc = "exists_base"
    /\ trace' = Append(trace, "exists_base")
    /\ IF path_exists(sys_argv[2])
       THEN /\ pc' = "exists_head"
            /\ UNCHANGED <<stderr, exit_code>>
       ELSE /\ stderr' = Append(stderr, Msg("base_not_found", sys_argv[2]))
            /\ exit_code' = <<2>>
            /\ pc' = "done"
    /\ UNCHANGED <<sys_argv, fs_exists, stdout, base_docs, head_docs, base_pages,
                   head_pages, head_redirects, removed_pages, doc_redirects, todo,
                   pages_without_redirect, norm_vars, extract_vars>>

\* Lines 112-120.
CheckHeadExists ==
    /\ pc = "exists_head"
    /\ trace' = Append(trace, "exists_head")
    /\ IF path_exists(sys_argv[3])
       THEN /\ pc' = "load_base"
            /\ UNCHANGED <<stderr, exit_code>>
       ELSE /\ stderr' = Append(stderr, Msg("head_not_found", sys_argv[3]))
            /\ exit_code' = <<2>>
            /\ pc' = "done"
    /\ UNCHANGED <<sys_argv, fs_exists, stdout, base_docs, head_docs, base_pages,
                   head_pages, head_redirects, removed_pages, doc_redirects, todo,
                   pages_without_redirect, norm_vars, extract_vars>>

\* Lines 122-123: json.load returns the document or raises on malformed text.
LoadBase ==
    /\ pc = "load_base"
    /\ trace' = Append(trace, "load_base")
    /\ \/ /\ base_docs' \in BaseDocs
          /\ pc' = "load_head"
       \/ /\ pc' = "raised"
          /\ UNCHANGED base_docs
    /\ UNCHANGED <<sys_argv, fs_exists, exit_code, stderr, stdout, head_docs,
                   base_pages, head_pages, head_redirects, removed_pages,
                   doc_redirects, todo, pages_without_redirect, norm_vars,
                   extract_vars>>

\* Lines 124-125: the same path holds the text that was read before.
LoadHead ==
    /\ pc = "load_head"
    /\ trace' = Append(trace, "load_head")
    /\ \/ /\ IF sys_argv[3] = sys_argv[2]
             THEN head_docs' = base_docs
             ELSE head_docs' \in HeadDocs
          /\ pc' = "extract"
       \/ /\ sys_argv[3] # sys_argv[2]
          /\ pc' = "raised"
          /\ UNCHANGED head_docs
    /\ UNCHANGED <<sys_argv, fs_exists, exit_code, stderr, stdout, base_docs,
                   base_pages, head_pages, head_redirects, removed_pages,
                   doc_redirects, todo, pages_without_redirect, norm_vars,
                   extract_vars>>

\* Lines 127-129.
Extract ==
    /\ pc = "extract"
    /\ trace' = Append(trace, "extract")
    /\ base_pages' = extract_all_pages(base_docs)
    /\ head_pages' = extract_all_pages(head_docs)
    /\ head_redirects' = dict_get(head_docs, "redirects", <<>>)
    /\ pc' = "diff"
    /\ UNCHANGED <<sys_argv, fs_exists, exit_code, stderr, stdout, base_docs,
                   head_docs, removed_pages, doc_redirects, todo,
                   pages_without_redirect, norm_vars, extract_vars>>

\* Lines 131-134.
Diff ==
    /\ pc = "diff"
    /\ trace' = Append(trace, "diff")
    /\ removed_pages' = removed(base_pages, head_pages)
    /\ IF removed_pages' = {}
       THEN /\ stdout' = Append(stdout, Out("no_pages_removed", 0))
            /\ exit_code' = <<0>>
            /\ pc' = "done"
       ELSE /\ pc' = "filter"
            /\ UNCHANGED <<stdout, exit_code>>
    /\ UNCHANGED <<sys_argv, fs_exists, stderr, base_docs, head_docs, base_pages,
                   head_pages, head_redirects, doc_redirects, todo,
                   pages_without_redirect, norm_vars, extract_vars>>

\* Lines 138-145: the filter, the empty result list and the sorted pages.
Filter ==
    /\ pc = "filter"
    /\ trace' = Append(trace, "filter")
    /\ doc_redirects' = SelectSeq(head_redirects, is_doc_redirect)
    /\ pages_without_redirect' = <<>>
    /\ todo' = sorted(removed_pages)
    /\ pc' = "check"
    /\ UNCHANGED <<sys_argv, fs_exists, exit_code, stderr, stdout, base_docs,
                   head_docs, base_pages, head_pages, head_redirects,
                   removed_pages, norm_vars, extract_vars>>

\* Lines 145-147: one turn of the loop.
CheckPage ==
    /\ pc = "check"
    /\ todo # <<>>
    /\ pages_without_redirect' =
           IF has_redirect_for_page(Head(todo), doc_redirects)
           THEN pages_without_redirect
           ELSE Append(pages_without_redirect, Head(todo))
    /\ todo' = Tail(todo)
    /\ UNCHANGED <<sys_argv, fs_exists, pc, exit_code, stderr, stdout, trace,
                   base_docs, head_docs, base_pages, head_pages, head_redirects,
                   removed_pages, doc_redirects, norm_vars, extract_vars>>

\* Lines 149-177.
Report ==
    /\ pc = "check"
    /\ todo = <<>>
    /\ trace' = Append(trace, "report")
    /\ IF pages_without_redirect = <<>>
       THEN /\ stdout' = Append(stdout, Out("all_have_redirects",
                                             Cardinality(removed_pages)))
            /\ exit_code' = <<0>>
            /\ UNCHANGED stderr
       ELSE /\ stderr' = stderr
                   \o <<Msg("removed_without_redirects", <<>>)>>
                   \o [i \in DOMAIN pages_without_redirect |->
                          Msg("page", pages_without_redirect[i])]
                   \o <<Msg("blank", <<>>), Msg("please_add", <<>>),
                        Msg("example", <<>>), Msg("add_these", <<>>)>>
            /\ exit_code' = <<1>>
            /\ UNCHANGED stdout
    /\ pc' = "done"
    /\ UNCHANGED <<sys_argv, fs_exists, base_docs, head_docs, base_pages,
                   head_pages, head_redirects, removed_pages, doc_redirects, todo,
                   pages_without_redirect, norm_vars, extract_vars>>

Next ==
    \/ CheckArgc \/ CheckBaseExists \/ CheckHeadExists
    \/ LoadBase \/ LoadHead \/ Extract \/ Diff \/ Filter \/ CheckPage \/ Report

Spec == Init /\ [][Next]_vars

\* The run as the specification words it.
TwoArguments == Len(sys_argv) = 3
BothExist == TwoArguments /\ sys_argv[2] \in fs_exists /\ sys_argv[3] \in fs_exists
SomeMissing == TwoArguments /\ ~BothExist

PageRedirects(docs) ==
    LET table == ListAt(docs, "redirects")
    IN  {table[i].v : i \in {j \in DOMAIN table :
                                /\ table[j].t = "obj"
                                /\ "source" \in DOMAIN table[j].v
                                /\ "destination" \in DOMAIN table[j].v}}

Covered(page, docs) ==
    \E r \in PageRedirects(docs) :
        NormEverySlash(r["source"]) = NormEverySlash(page)

Gone == ExpectedPages(base_docs) \ ExpectedPages(head_docs)
Uncovered == {p \in Gone : ~Covered(p, head_docs)}

IsPageLine(m) == m.kind = "page"
Listed == LET lines == SelectSeq(stderr, IsPageLine)
          IN  [i \in DOMAIN lines |-> lines[i].arg]

\* C1: with two arguments naming existing well-formed documents the exit
\* code is 0 exactly when every page of base that is not a page of head has a
\* head redirect carrying source and destination whose normalized source is
\* the normalized page, it is 1 otherwise, and it is never 2.
C1_ExitCodeIffAllCovered ==
    /\ BothExist => exit_code # <<2>>
    /\ pc = "done" /\ BothExist =>
         /\ exit_code \in {<<0>>, <<1>>}
         /\ exit_code = <<0>> <=> \A p \in Gone : Covered(p, head_docs)

\* One page removed and covered: exit code 0 with the count 1.
C1_Witness ==
    /\ pc = "done"
    /\ exit_code = <<0>>
    /\ Cardinality(Gone) = 1
    /\ stdout = <<Out("all_have_redirects", 1)>>

\* C2: a removed page that no entry carrying both source and destination
\* matches is listed as uncovered and the run exits 1, whatever entries
\* without source, without destination or of another type the table holds.
C2_MalformedEntriesNeverCover ==
    pc = "done" /\ BothExist =>
        \A p \in Gone :
            ~Covered(p, head_docs) =>
                /\ exit_code = <<1>>
                /\ \E i \in DOMAIN Listed : Listed[i] = p

\* The root page is removed and the table holds only an entry without source
\* and an entry without destination.
C2_Witness ==
    /\ pc = "done"
    /\ Gone = {<<>>}
    /\ ListAt(head_docs, "redirects") = <<DestinationOnly, SourceOnly(<<"/", "a">>)>>
    /\ exit_code = <<1>>
    /\ Listed = << <<>> >>

\* C6 as claimed: with two arguments of which one at least names no file, the
\* run exits 2 and the error stream names every missing file.
C6_EachMissingFileReported ==
    pc = "done" /\ SomeMissing =>
        /\ exit_code = <<2>>
        /\ sys_argv[2] \notin fs_exists =>
              \E i \in DOMAIN stderr : stderr[i] = Msg("base_not_found", sys_argv[2])
        /\ sys_argv[3] \notin fs_exists =>
              \E i \in DOMAIN stderr : stderr[i] = Msg("head_not_found", sys_argv[3])

\* C6 amended: with two arguments of which one at least names no file, the
\* run exits 2 and the error stream holds one message only: the one naming
\* the base path when the base file is missing, else the one naming the head
\* path.
C6_FirstMissingFileReported ==
    pc = "done" /\ SomeMissing =>
        /\ exit_code = <<2>>
        /\ stdout = <<>>
        /\ stderr = IF sys_argv[2] \notin fs_exists
                    THEN <<Msg("base_not_found", sys_argv[2])>>
                    ELSE <<Msg("head_not_found", sys_argv[3])>>

\* Both files are missing and only the base path is named.
C6_Witness ==
    /\ pc = "done"
    /\ TwoArguments
    /\ sys_argv[2] # sys_argv[3]
    /\ fs_exists = {}
    /\ exit_code = <<2>>
    /\ stderr = <<Msg("base_not_found", sys_argv[2])>>

\* C7: a run whose argument count is not two prints the usage message, exits
\* 2 and takes no other step; in every run the steps come in the order
\* argument count, existence of base, existence of head, loading, and loading
\* is reached only with two arguments that both name existing files.
C7_UsageErrorStopsTheRun ==
    /\ pc = "done" /\ ~TwoArguments =>
         /\ trace = <<"argc">>
         /\ stderr = <<Msg("usage", <<>>)>>
         /\ stdout = <<>>
         /\ exit_code = <<2>>
    /\ ~TwoArguments => trace \in {<<>>, <<"argc">>}
    /\ \A i \in DOMAIN trace :
         /\ trace[i] = "argc" <=> i = 1
         /\ trace[i] = "exists_base" <=> i = 2
         /\ trace[i] = "exists_head" <=> i = 3
         /\ trace[i] \in {"load_base", "load_head"} => i > 3 /\ BothExist

\* One argument, naming an existing file: usage message, nothing else.
C7_Witness ==
    /\ pc = "done"
    /\ Len(sys_argv) = 2
    /\ sys_argv[2] \in fs_exists
    /\ trace = <<"argc">>
    /\ exit_code = <<2>>

\* C8: when the exit code is 1, the identifiers listed on the error stream
\* are the removed pages without a matching redirect, as extracted, each
\* once, in ascending lexicographic order.
C8_ListedAreUncoveredAscending ==
    pc = "done" /\ exit_code = <<1>> =>
        /\ {Listed[i] : i \in DOMAIN Listed} = Uncovered
        /\ \A i, j \in DOMAIN Listed : i < j => StrLess(Listed[i], Listed[j])

\* Two pages listed, /a before b.
C8_Witness ==
    /\ pc = "done"
    /\ exit_code = <<1>>
    /\ Listed = << <<"/", "a">>, <<"b">> >>

\* C10: a page of base whose exact string is not a page of head is removed
\* even when head holds a page with the same normal form, and without a
\* matching redirect the run exits 1.
C10_RemovedOnRawStrings ==
    pc = "done" /\ BothExist =>
        \A p \in ExpectedPages(base_docs) :
            /\ p \notin ExpectedPages(head_docs)
            /\ \E h \in ExpectedPages(head_docs) : NormEverySlash(h) = NormEverySlash(p)
            => /\ p \in removed_pages
               /\ ~Covered(p, head_docs) => exit_code = <<1>>

\* Base holds a.mdx, head holds a, no redirect: a.mdx is listed.
C10_Witness ==
    /\ pc = "done"
    /\ ExpectedPages(base_docs) = {<<"a">> \o MdxSuffix}
    /\ ExpectedPages(head_docs) = {<<"a">>}
    /\ removed_pages = {<<"a">> \o MdxSuffix}
    /\ exit_code = <<1>>

====
